---- MODULE Spec2Model ----
(***************************************************************************)
(* SERP similarity checker (src/app.py): the retrying search client, the   *)
(* URL extractor, the overlap scorer, the row task and the table runner    *)
(* with its worker pool, as one state machine.                             *)
(*                                                                         *)
(* Encodings.  A string that is only tested for emptiness (a URL, a        *)
(* credential) is a natural number; 0 is the empty string.                 *)
(* An optional value (Python None / a missing key) is a sequence of length *)
(* 0 or 1.  A parsed JSON object is [hasItems, items]; an item is the      *)
(* optional value of its 'link' key.                                       *)
(***************************************************************************)
EXTENDS Integers, Sequences, FiniteSets, TLC

\* ---------------------------------------------------------------- constants
\* range(5), app.py:18
MaxAttempts == 5
\* time.sleep(10), app.py:22
RateLimitDelay == 10
\* time.sleep(5), app.py:28
TransientDelay == 5
\* urls[:10], app.py:39
TopN == 10
\* len(common_urls) / 10, app.py:46
Divisor == 10
\* ThreadPoolExecutor(max_workers=10), app.py:79
MaxWorkers == 10

\* ------------------------------------------------------------------- bounds
\* rows of the input tables of Spec
MaxRows == 2
\* items of one API response of the corpus
MaxItems == 15
\* shift of the URL numbering between two corpus responses
MaxOffset == 2
\* rows of the table of SpecPool beyond the size of the worker pool
PoolExtra == 1

Min(a, b) == IF a < b THEN a ELSE b

Range(s) == {s[i] : i \in 1..Len(s)}

\* ------------------------------------------------------------ API responses
EmptyString == 0

\* Python truthiness of an optional string: None and "" are falsy.
Truthy(v) == v # <<>> /\ v[1] # EmptyString

\* The response bodies.  json = FALSE is a body json.loads cannot parse.
NoBody == [json |-> FALSE, hasItems |-> FALSE, items |-> <<>>]

ObjectBody(items) == [json |-> TRUE, hasItems |-> TRUE, items |-> items]

NoItemsBody == [json |-> TRUE, hasItems |-> FALSE, items |-> <<>>]

\* One item of a corpus response: the i-th of a response of the given shape,
\* its URLs numbered from off + 1.
\*   plain: every item carries its own link
\*   gaps:  every 4th item has no 'link' key
\*   blank: every 4th item has the link ""
\*   dup:   consecutive items share a link
CorpusItem(shape, off, i) ==
    CASE shape = "gaps" /\ i % 4 = 0 -> <<>>
      [] shape = "blank" /\ i % 4 = 0 -> <<EmptyString>>
      [] shape = "dup" -> <<off + ((i + 1) \div 2)>>
      [] OTHER -> <<off + i>>

CorpusBody(shape, off, n) == ObjectBody([i \in 1..n |-> CorpusItem(shape, off, i)])

Shapes == {"plain", "gaps", "blank", "dup"}

\* The corpus: plain responses at every shift, the other shapes unshifted,
\* and a response without an items field.
Corpus == {CorpusBody("plain", off, n) : off \in 0..MaxOffset, n \in 0..MaxItems}
              \cup {CorpusBody(sh, 0, n) : sh \in Shapes, n \in 0..MaxItems}
              \cup {NoItemsBody}

BodyA == CorpusBody("plain", 0, 3)

BodyB == CorpusBody("plain", 1, 3)

\* What one requests.get can end in: a RequestException raised by the
\* transport, or a response with a status code and a body.
NetworkFailure == [kind |-> "neterr", status |-> 0, body |-> NoBody]

Http(status, body) == [kind |-> "http", status |-> status, body |-> body]

\* The environments a run is checked in, by the responses the API may give.
Responses(net) ==
    CASE net = "ok" -> {Http(200, BodyA), Http(200, BodyB)}
      [] net = "ratelimited" -> {Http(429, NoBody), Http(200, BodyA)}
      [] net = "failing" -> {Http(503, NoBody), Http(200, BodyB)}
      [] net = "garbled" -> {Http(200, NoBody), Http(200, BodyA)}
      [] net = "lab" -> {NetworkFailure, Http(429, NoBody), Http(404, NoBody), Http(503, NoBody)}
                          \cup {Http(s, b) : s \in {101, 200, 304}, b \in {NoBody, NoItemsBody, BodyA}}
      [] net = "corpus" -> {Http(200, b) : b \in Corpus}
      [] net = "steady" -> {Http(200, BodyA)}
      [] OTHER -> {}

\* ------------------------------------------------------------------- search
\* Mutant: every status outside 2xx raises.
raise_for_non_2xx(status) == status < 200 \/ status >= 300

\* response.raise_for_status(): HTTPError for 4xx and 5xx (app.py:24).
raise_for_status(status) == status >= 400 /\ status < 600

\* json.loads(response.text) of a parseable body (app.py:25).
json_loads(body) == [hasItems |-> body.hasItems, items |-> body.items]

\* The empty dictionary of app.py:29.
EmptyDict == [hasItems |-> FALSE, items |-> <<>>]

\* The frame of one call of search: attempt counts the iterations done,
\* result is the value returned, exc the exception that left the call;
\* gets, sleeps, printed and hist record what the call did (the number of
\* requests it sent, its time.sleep arguments, the attempt numbers of its
\* diagnostic lines, the responses it received).
NewFrame ==
    [st |-> "loop", attempt |-> 0, result |-> EmptyDict, exc |-> "", gets |-> 0,
     sleeps |-> <<>>, printed |-> <<>>, hist |-> <<>>]

\* The exceptions the try body can raise that are RequestExceptions:
\* requests.get's own and raise_for_status's HTTPError.
RequestExceptions == {"ConnectionError", "HTTPError"}

\* Mutant: the except clause names HTTPError only.
caught_http_only(exc) == exc = "HTTPError"

\* except requests.exceptions.RequestException, app.py:26.
caught(exc) == exc \in RequestExceptions

\* The try body, app.py:20-25: how it ends on the response resp.
try_body(resp) ==
    IF resp.kind = "neterr" THEN [end |-> "raise", exc |-> "ConnectionError"]
    ELSE IF resp.status = 429 THEN [end |-> "continue", exc |-> ""]
    ELSE IF raise_for_status(resp.status) THEN [end |-> "raise", exc |-> "HTTPError"]
    ELSE IF ~resp.body.json THEN [end |-> "raise", exc |-> "JSONDecodeError"]
    ELSE [end |-> "return", exc |-> ""]

\* The loop falls through to 'return {}' after the last iteration.
next_iteration(f) ==
    IF f.attempt + 1 < MaxAttempts
    THEN [f EXCEPT !.attempt = @ + 1]
    ELSE [f EXCEPT !.attempt = @ + 1, !.st = "returned", !.result = EmptyDict]

\* Mutant: the line carries the loop variable, which counts from 0.
request_failed_from_zero(f) ==
    next_iteration([f EXCEPT !.printed = Append(@, f.attempt),
                             !.sleeps = Append(@, TransientDelay)])

\* Mutant: the delay grows with the attempt.
request_failed_growing_delay(f) ==
    next_iteration([f EXCEPT !.printed = Append(@, f.attempt + 1),
                             !.sleeps = Append(@, TransientDelay * (f.attempt + 1))])

\* Mutant: no sleep when no retry follows.
request_failed_last_unslept(f) ==
    next_iteration([f EXCEPT !.printed = Append(@, f.attempt + 1),
                             !.sleeps = IF f.attempt + 1 < MaxAttempts
                                        THEN Append(@, TransientDelay) ELSE @])

\* The except branch, app.py:26-28.
request_failed(f) ==
    next_iteration([f EXCEPT !.printed = Append(@, f.attempt + 1),
                             !.sleeps = Append(@, TransientDelay)])

\* Mutant: a 429 is retried without using up an iteration.
rate_limited_free(f) == [f EXCEPT !.sleeps = Append(@, RateLimitDelay)]

\* Mutant: a 429 backs off like any other failure.
rate_limited_short(f) ==
    next_iteration([f EXCEPT !.sleeps = Append(@, TransientDelay)])

\* The 429 branch, app.py:21-23.
rate_limited(f) ==
    next_iteration([f EXCEPT !.sleeps = Append(@, RateLimitDelay)])

\* One iteration of the retry loop, app.py:18-29, on the response resp.
search_attempt(f, resp) ==
    LET g == [f EXCEPT !.gets = @ + 1, !.hist = Append(@, resp)]
        r == try_body(resp)
    IN  CASE r.end = "continue" -> rate_limited(g)
          [] r.end = "return" -> [g EXCEPT !.st = "returned", !.result = json_loads(resp.body)]
          [] r.end = "raise" /\ caught(r.exc) -> request_failed(g)
          [] OTHER -> [g EXCEPT !.st = "raised", !.exc = r.exc]

\* ------------------------------------------------------------- extract_urls
\* The loop of app.py:35-38: the truthy links, in order.
RECURSIVE links_of(_)
links_of(items) ==
    IF items = <<>> THEN <<>>
    ELSE (IF Truthy(Head(items)) THEN <<Head(items)[1]>> ELSE <<>>)
             \o links_of(Tail(items))

\* Mutant: no truncation.
extract_urls_untruncated(results) ==
    IF results.hasItems THEN links_of(results.items) ELSE <<>>

\* Mutant: the first 10 items are taken before the items without a link are
\* dropped.
extract_urls_truncate_first(results) ==
    IF results.hasItems
    THEN links_of(SubSeq(results.items, 1, Min(Len(results.items), TopN)))
    ELSE <<>>

extract_urls(results) ==
    LET urls == IF results.hasItems THEN links_of(results.items) ELSE <<>>
    IN  SubSeq(urls, 1, Min(Len(urls), TopN))

\* ------------------------------------------------ calculate_serp_similarity
\* (len(common_urls) / 10) * 100 in binary64 is the exact integer 10 * n for
\* every n in 0..10, the only sizes two lists of at most 10 URLs can share.
\* Mutant: the entries of the first list found in the second are counted,
\* a repeated link as often as it occurs.
similarity_counting_repeats(urls1, urls2) ==
    LET common_urls == {i \in 1..Len(urls1) : urls1[i] \in Range(urls2)}
    IN  (Cardinality(common_urls) * 100) \div Divisor

\* Mutant: the overlap is divided by the size of the first result set.
similarity_by_set_size(urls1, urls2) ==
    LET common_urls == Range(urls1) \cap Range(urls2)
    IN  IF urls1 = <<>> THEN 0
        ELSE (Cardinality(common_urls) * 100) \div Cardinality(Range(urls1))

calculate_serp_similarity(urls1, urls2) ==
    LET common_urls == Range(urls1) \cap Range(urls2)
    IN  (Cardinality(common_urls) * 100) \div Divisor

\* -------------------------------------------------------------------- state
VARIABLES
    secrets,      \* st.secrets: GOOGLE_API_KEY and CUSTOM_SEARCH_ENGINE_ID, optional strings
    uploaded,     \* uploaded_file is not None
    clicked,      \* st.button('Start Processing')
    df,           \* the table pd.read_csv gives: [columns, rows]
    net,          \* the environment: which responses the API may give
    pc,           \* where main / process_file stands
    futures,      \* the row-tasks in submission order (the dict of app.py:80)
    cursor,       \* position of 'for future in futures' (app.py:82), from 1
    output_df,    \* the output table
    progress,     \* what was emitted to the progress bar, text and placeholder
    requests,     \* requests.get calls made so far, by all threads
    searchCalls,  \* calls of search so far, by all threads
    overtaken     \* some task has finished while one submitted before it had not

vars == <<secrets, uploaded, clicked, df, net, pc, futures, cursor, output_df,
          progress, requests, searchCalls, overtaken>>

K1 == "Keyword 1"

K2 == "Keyword 2"

SIM == "SERP Similarity"

\* ------------------------------------------------------------------- inputs
Keywords == <<"a", "b">>

\* The i-th row of the sample tables: rows 1..4 are pairwise different, row 1
\* has the same keyword in both columns, and keywords repeat across rows.
SampleRow(cols, i) ==
    [c \in cols |->
        IF c = K1 THEN Keywords[((i - 1) % 2) + 1]
        ELSE IF c = K2 THEN Keywords[(((i - 1) \div 2) % 2) + 1]
        ELSE "note"]

SampleTable(cols, n) == [columns |-> cols, rows |-> [i \in 1..n |-> SampleRow(cols, i)]]

ColumnSets == {{K1, K2}, {K1, K2, "Notes"}, {K1}, {K2}, {"Notes"}}

\* The tables of the given sizes with exactly the required columns, and
\* one-row tables with an extra column or without a required one.
Tables(sizes) ==
    {SampleTable({K1, K2}, n) : n \in sizes} \cup {SampleTable(cols, 1) : cols \in ColumnSets}

\* None, "" and a non-empty credential.
SecretValues == {<<>>, <<EmptyString>>, <<1>>}

\* The state at the start of one run of the script, for the given
\* environments and table sizes.
InitWith(nets, sizes) ==
    /\ secrets \in [api_key : SecretValues, cse_id : SecretValues]
    /\ uploaded \in BOOLEAN
    /\ clicked \in BOOLEAN
    /\ df \in Tables(sizes)
    /\ net \in nets
    /\ pc = "main"
    /\ futures = <<>>
    /\ cursor = 1
    /\ output_df = <<>>
    /\ progress = <<>>
    /\ requests = 0
    /\ searchCalls = 0
    /\ overtaken = FALSE

Init == InitWith({"ok", "ratelimited", "failing", "garbled"}, 0..MaxRows)

\* --------------------------------------------------------------------- main
\* Mutant: only the API key is tested.
api_key_present(s) == Truthy(s.api_key)

\* 'if api_key and cse_id', app.py:116.
credentials_present(s) == Truthy(s.api_key) /\ Truthy(s.cse_id)

\* app.py:113-114: nothing happens without a file and a click.
MainIdle ==
    /\ pc = "main"
    /\ ~(uploaded /\ clicked)
    /\ pc' = "idle"
    /\ UNCHANGED <<secrets, uploaded, clicked, df, net, futures, cursor, output_df,
                   progress, requests, searchCalls, overtaken>>

\* app.py:116, 135-136: st.error when a credential is None or "".
MainMissingCredentials ==
    /\ pc = "main"
    /\ uploaded /\ clicked
    /\ ~credentials_present(secrets)
    /\ pc' = "error_shown"
    /\ UNCHANGED <<secrets, uploaded, clicked, df, net, futures, cursor, output_df,
                   progress, requests, searchCalls, overtaken>>

\* app.py:116-123: process_file is called.
MainProcess ==
    /\ pc = "main"
    /\ uploaded /\ clicked
    /\ credentials_present(secrets)
    /\ pc' = "process_file"
    /\ UNCHANGED <<secrets, uploaded, clicked, df, net, futures, cursor, output_df,
                   progress, requests, searchCalls, overtaken>>

\* app.py:125-134: the processed table and the download button.
MainShow ==
    /\ pc = "returned"
    /\ pc' = "shown"
    /\ UNCHANGED <<secrets, uploaded, clicked, df, net, futures, cursor, output_df,
                   progress, requests, searchCalls, overtaken>>

\* ------------------------------------------------------------- process_file
total_rows == Len(df.rows)

\* Mutant: only the first required column is looked for.
has_keyword1_column(columns) == K1 \in columns

\* {'Keyword 1', 'Keyword 2'}.issubset(df.columns), app.py:72.
has_required_columns(columns) == {K1, K2} \subseteq columns

\* app.py:72-73: ValueError when a required column is absent.
ProcessFileReject ==
    /\ pc = "process_file"
    /\ ~has_required_columns(df.columns)
    /\ pc' = "config_error"
    /\ UNCHANGED <<secrets, uploaded, clicked, df, net, futures, cursor, output_df,
                   progress, requests, searchCalls, overtaken>>

\* app.py:72-79: the columns are there; the empty output table, the pool.
ProcessFileAccept ==
    /\ pc = "process_file"
    /\ has_required_columns(df.columns)
    /\ pc' = "pool"
    /\ output_df' = <<>>
    /\ UNCHANGED <<secrets, uploaded, clicked, df, net, futures, cursor,
                   progress, requests, searchCalls, overtaken>>

NewTask(index, row) ==
    [index |-> index, row |-> row, pc |-> "pending", frame |-> NewFrame,
     results1 |-> EmptyDict, urls1 |-> <<>>, urls2 |-> <<>>, result |-> <<>>,
     error |-> <<>>]

\* app.py:80: executor.submit for the next row of df.iterrows(); the index
\* labels of a table read by pd.read_csv are 0, 1, 2, ...
Submit ==
    /\ pc = "pool"
    /\ Len(futures) < total_rows
    /\ futures' = Append(futures, NewTask(Len(futures), df.rows[Len(futures) + 1]))
    /\ UNCHANGED <<secrets, uploaded, clicked, df, net, pc, cursor, output_df,
                   progress, requests, searchCalls, overtaken>>

Collecting == pc = "pool" /\ Len(futures) = total_rows

\* Mutant: the result taken next is that of a future that has finished, the
\* last submitted among them (collection in finish order).
any_finished(fs, cur) ==
    IF \E t \in cur..Len(fs) : fs[t].pc = "done"
    THEN CHOOSE t \in cur..Len(fs) :
             fs[t].pc = "done" /\ \A u \in cur..Len(fs) : fs[u].pc = "done" => u <= t
    ELSE cur

\* app.py:82-84: the future whose result is awaited next is the next one in
\* the dict's (submission) order, whatever has finished meanwhile.
awaited(fs, cur) == cur

\* Mutant: the new row takes the place of the table.
concat_replacing(out, new_row) == <<new_row>>

\* output_df = pd.concat([output_df, new_row], ignore_index=True),
\* app.py:85-86.
concat(out, new_row) == Append(out, new_row)

\* app.py:82-93: future.result() of the next future in submission order has
\* a record: append it, report progress, show the table.
Collect ==
    /\ Collecting
    /\ cursor <= Len(futures)
    /\ futures[awaited(futures, cursor)].pc = "done"
    /\ output_df' = concat(output_df, futures[awaited(futures, cursor)].result[1])
    /\ progress' = Append(progress, [completed |-> futures[awaited(futures, cursor)].index + 1,
                                     total |-> total_rows,
                                     shown |-> Len(output_df')])
    /\ cursor' = cursor + 1
    /\ UNCHANGED <<secrets, uploaded, clicked, df, net, pc, futures, requests, searchCalls, overtaken>>

\* app.py:84: future.result() re-raises what the row-task raised.
CollectRaise ==
    /\ Collecting
    /\ cursor <= Len(futures)
    /\ futures[awaited(futures, cursor)].pc = "raised"
    /\ pc' = "unwinding"
    /\ UNCHANGED <<secrets, uploaded, clicked, df, net, futures, cursor, output_df,
                   progress, requests, searchCalls, overtaken>>

Finished(t) == futures[t].pc \in {"done", "raised"}

\* app.py:79, 95: leaving the with block joins the workers; return output_df.
ProcessFileReturn ==
    /\ Collecting
    /\ cursor > Len(futures)
    /\ \A t \in 1..Len(futures) : Finished(t)
    /\ pc' = "returned"
    /\ UNCHANGED <<secrets, uploaded, clicked, df, net, futures, cursor, output_df,
                   progress, requests, searchCalls, overtaken>>

\* app.py:79: the exception leaves the with block, whose exit still waits
\* for every submitted task (shutdown(wait=True)), and then leaves
\* process_file and main.
ProcessFileRaise ==
    /\ pc = "unwinding"
    /\ \A t \in 1..Len(futures) : Finished(t)
    /\ pc' = "crashed"
    /\ UNCHANGED <<secrets, uploaded, clicked, df, net, futures, cursor, output_df,
                   progress, requests, searchCalls, overtaken>>

\* -------------------------------------------------------------- process_row
\* Whether a task submitted before t is still unfinished.
Overtakes(t) == \E u \in 1..(t - 1) : ~Finished(u)

Running == {t \in 1..Len(futures) : futures[t].pc \in {"search1", "search2"}}

\* Mutant: a thread is started for every submitted task.
thread_per_task(running) == TRUE

\* ThreadPoolExecutor(max_workers=10), app.py:79: a worker is idle, or the
\* pool may still start one.
worker_free(running) == Cardinality(running) < MaxWorkers

\* A free worker takes the oldest pending task (app.py:79-80) and enters
\* the first search (app.py:51-55).
TaskStart(t) ==
    /\ t \in 1..Len(futures)
    /\ futures[t].pc = "pending"
    /\ \A u \in 1..(t - 1) : futures[u].pc # "pending"
    /\ worker_free(Running)
    /\ futures' = [futures EXCEPT ![t].pc = "search1", ![t].frame = NewFrame]
    /\ searchCalls' = searchCalls + 1
    /\ UNCHANGED <<secrets, uploaded, clicked, df, net, pc, cursor, output_df,
                   progress, requests, overtaken>>

\* One iteration of the retry loop of the search the task is in.
SearchAttempt(t, resp) ==
    /\ t \in Running
    /\ futures[t].frame.st = "loop"
    /\ futures' = [futures EXCEPT ![t].frame = search_attempt(@, resp)]
    /\ requests' = requests + 1
    /\ UNCHANGED <<secrets, uploaded, clicked, df, net, pc, cursor, output_df,
                   progress, searchCalls, overtaken>>

\* Mutant: the next statement does not wait for the call.
not_awaited(f) == TRUE

\* results = search(...), app.py:55, 56: the statement after the call runs
\* when the call has returned, search being an ordinary blocking function.
returned(f) == f.st = "returned"

\* app.py:55-56: results1 is bound, the second search is entered.
Search1Return(t) ==
    /\ t \in 1..Len(futures)
    /\ futures[t].pc = "search1"
    /\ returned(futures[t].frame)
    /\ futures' = [futures EXCEPT ![t].pc = "search2",
                                  ![t].results1 = futures[t].frame.result,
                                  ![t].frame = NewFrame]
    /\ searchCalls' = searchCalls + 1
    /\ UNCHANGED <<secrets, uploaded, clicked, df, net, pc, cursor, output_df,
                   progress, requests, overtaken>>

\* app.py:56-65 after the second search: extraction, scoring, the record.
process_row_result(row, results1, results2) ==
    LET urls1 == extract_urls(results1)
        urls2 == extract_urls(results2)
    IN  [urls1 |-> urls1, urls2 |-> urls2,
         record |-> (K1 :> row[K1]) @@ (K2 :> row[K2])
                      @@ (SIM :> calculate_serp_similarity(urls1, urls2))]

Search2Return(t) ==
    /\ t \in 1..Len(futures)
    /\ futures[t].pc = "search2"
    /\ returned(futures[t].frame)
    /\ LET r == process_row_result(futures[t].row, futures[t].results1,
                                   futures[t].frame.result)
       IN  futures' = [futures EXCEPT ![t].pc = "done",
                                      ![t].urls1 = r.urls1,
                                      ![t].urls2 = r.urls2,
                                      ![t].result = <<r.record>>,
                                      ![t].frame = NewFrame]
    /\ overtaken' = (overtaken \/ Overtakes(t))
    /\ UNCHANGED <<secrets, uploaded, clicked, df, net, pc, cursor, output_df,
                   progress, requests, searchCalls>>

\* json.loads raised inside search: nothing catches it in process_row, the
\* future holds the exception.
TaskRaise(t) ==
    /\ t \in Running
    /\ futures[t].frame.st = "raised"
    /\ futures' = [futures EXCEPT ![t].pc = "raised",
                                  ![t].error = <<futures[t].frame.exc>>,
                                  ![t].frame = NewFrame]
    /\ overtaken' = (overtaken \/ Overtakes(t))
    /\ UNCHANGED <<secrets, uploaded, clicked, df, net, pc, cursor, output_df,
                   progress, requests, searchCalls>>

\* app.py:55-65 as one step, for a task whose two searches are each answered
\* at the first attempt: what a task does between taking a worker and
\* giving it back does not matter to the pool.
ProcessRow(t) ==
    /\ t \in Running
    /\ futures[t].pc = "search1"
    /\ futures[t].frame = NewFrame
    /\ \E resp1 \in Responses(net), resp2 \in Responses(net) :
          LET f1 == search_attempt(NewFrame, resp1)
              f2 == search_attempt(NewFrame, resp2)
              r == process_row_result(futures[t].row, f1.result, f2.result)
          IN  /\ f1.st = "returned"
              /\ f2.st = "returned"
              /\ futures' = [futures EXCEPT ![t].pc = "done",
                                             ![t].results1 = f1.result,
                                             ![t].urls1 = r.urls1,
                                             ![t].urls2 = r.urls2,
                                             ![t].result = <<r.record>>]
    /\ requests' = requests + 2
    /\ searchCalls' = searchCalls + 1
    /\ overtaken' = (overtaken \/ Overtakes(t))
    /\ UNCHANGED <<secrets, uploaded, clicked, df, net, pc, cursor, output_df,
                   progress>>

\* ------------------------------------------------------------ specification
Next ==
    \/ MainIdle
    \/ MainMissingCredentials
    \/ MainProcess
    \/ MainShow
    \/ ProcessFileReject
    \/ ProcessFileAccept
    \/ Submit
    \/ Collect
    \/ CollectRaise
    \/ ProcessFileReturn
    \/ ProcessFileRaise
    \/ \E t \in 1..Len(futures) : TaskStart(t)
    \/ \E t \in 1..Len(futures) : \E resp \in Responses(net) : SearchAttempt(t, resp)
    \/ \E t \in 1..Len(futures) : Search1Return(t)
    \/ \E t \in 1..Len(futures) : Search2Return(t)
    \/ \E t \in 1..Len(futures) : TaskRaise(t)

Spec == Init /\ [][Next]_vars

\* One row, every kind of response in any order: the retry loop.
InitSearch == InitWith({"lab"}, {1})

SpecSearch == InitSearch /\ [][Next]_vars

\* One row, every pair of corpus responses: extraction and scoring.
InitRow == InitWith({"corpus", "garbled"}, {1})

SpecRow == InitRow /\ [][Next]_vars

\* More rows than workers, an API that answers every request at once: the
\* worker pool. The row-tasks take their steps whole.
PoolRows == MaxWorkers + PoolExtra

InitPool == InitWith({"steady"}, {PoolRows})

NextPool ==
    \/ MainIdle
    \/ MainMissingCredentials
    \/ MainProcess
    \/ MainShow
    \/ ProcessFileReject
    \/ ProcessFileAccept
    \/ Submit
    \/ Collect
    \/ ProcessFileReturn
    \/ \E t \in 1..Len(futures) : TaskStart(t)
    \/ \E t \in 1..Len(futures) : ProcessRow(t)

SpecPool == InitPool /\ [][NextPool]_vars

\* ------------------------------------------------------------------- claims
Tasks == 1..Len(futures)

\* A response that is a success: a 2xx status with a body that parses.
IsSuccess(resp) ==
    resp.kind = "http" /\ resp.status >= 200 /\ resp.status <= 299 /\ resp.body.json

\* A response that is a failure: no response at all, or a 4xx or 5xx status
\* (429 among them).
IsFailure(resp) ==
    resp.kind = "neterr" \/ (resp.status >= 400 /\ resp.status <= 599)

IsRateLimit(resp) == resp.kind = "http" /\ resp.status = 429

\* C1: one call of search sends at most 5 requests, one per attempt, whatever
\* the outcomes; a 429 uses up an attempt like any other failure; after 5
\* failed attempts the call has returned the empty result object, raising
\* nothing, and it has sent no 6th request.
C1_AtMostFiveRequests ==
    /\ \A t \in Tasks :
          LET f == futures[t].frame
          IN  /\ f.gets <= 5
              /\ f.gets = Len(f.hist)
              /\ f.st = "loop" => f.attempt = Len(f.hist) /\ f.attempt < 5
              /\ (Len(f.hist) = 5 /\ \A i \in 1..5 : IsFailure(f.hist[i]))
                    => /\ f.st = "returned"
                       /\ f.result = EmptyDict
                       /\ f.exc = ""
                       /\ f.gets = 5
    /\ requests <= 5 * searchCalls

\* A call that has returned the empty object after 5 failures of mixed kinds.
C1_Witness ==
    \E t \in Tasks :
        LET f == futures[t].frame
        IN  /\ f.st = "returned" /\ f.gets = 5 /\ f.result = EmptyDict
            /\ \A i \in 1..5 : IsFailure(f.hist[i])
            /\ \E i \in 1..5 : IsRateLimit(f.hist[i])
            /\ \E i \in 1..5 : f.hist[i].kind = "neterr"
            /\ \E i \in 1..5 : f.hist[i].status = 503

\* C2: a call that received k < 5 rate-limit responses and then a success
\* has slept exactly k times, 10 time-units each, has returned the parsed
\* body of attempt k + 1, and has sent nothing after it; no call ever holds
\* a response after a success.
C2_RateLimitThenSuccess ==
    \A t \in Tasks :
        LET f == futures[t].frame
            n == Len(f.hist)
        IN  /\ \A i \in 1..(n - 1) : ~IsSuccess(f.hist[i])
            /\ (n >= 1 /\ IsSuccess(f.hist[n]) /\ \A i \in 1..(n - 1) : IsRateLimit(f.hist[i]))
                  => /\ f.st = "returned"
                     /\ f.sleeps = [i \in 1..(n - 1) |-> 10]
                     /\ f.result = [hasItems |-> f.hist[n].body.hasItems,
                                    items |-> f.hist[n].body.items]
                     /\ f.gets = n

\* The responses [429, 429, 200]: two sleeps of 10, the third attempt's body.
C2_Witness ==
    \E t \in Tasks :
        LET f == futures[t].frame
        IN  /\ Len(f.hist) = 3
            /\ IsRateLimit(f.hist[1]) /\ IsRateLimit(f.hist[2])
            /\ f.hist[3] = Http(200, BodyA)
            /\ f.sleeps = <<10, 10>>
            /\ f.st = "returned"
            /\ f.result.items = BodyA.items

\* What search has done with the i-th response of a call, as the claims
\* describe it.
Retried(f, i) ==
    IF i < 5 THEN i < Len(f.hist) \/ f.st = "loop"
    ELSE f.st = "returned" /\ f.result = EmptyDict

Ended(f, i) ==
    /\ i = Len(f.hist)
    /\ IF f.hist[i].body.json
       THEN /\ f.st = "returned"
            /\ f.result = [hasItems |-> f.hist[i].body.hasItems, items |-> f.hist[i].body.items]
       ELSE f.st = "raised" /\ f.exc = "JSONDecodeError"

\* C3 as stated: every response with a status outside 2xx, and every network
\* failure, is retried (never returned as the result of search).
C3_Stated ==
    \A t \in Tasks :
        LET f == futures[t].frame
        IN  \A i \in 1..Len(f.hist) :
                (f.hist[i].kind = "neterr" \/ f.hist[i].status < 200 \/ f.hist[i].status > 299)
                    => Retried(f, i)

\* C3, amended: search retries on a network failure and on a 4xx or 5xx
\* status (429 included); a response with any other status, 1xx and 3xx as
\* well as 2xx, ends the call: its body is parsed and returned, or the
\* parse error leaves the call.
C3_RetryOnErrorStatus ==
    \A t \in Tasks :
        LET f == futures[t].frame
        IN  \A i \in 1..Len(f.hist) :
                IF IsFailure(f.hist[i]) THEN Retried(f, i) ELSE Ended(f, i)

\* A 503 was retried and the 304 that followed was returned as the result.
C3_Witness ==
    \E t \in Tasks :
        LET f == futures[t].frame
        IN  /\ Len(f.hist) = 2
            /\ f.hist[1].status = 503
            /\ f.hist[2] = Http(304, BodyA)
            /\ f.st = "returned"
            /\ f.result.items = BodyA.items

\* A call of search that used up its 5 attempts on failures.
Exhausted(f) == Len(f.hist) = 5 /\ \A i \in 1..5 : IsFailure(f.hist[i])

TransientErrors == {"ConnectionError", "HTTPError"}

\* No failed request shows above search: no call and no row-task ends in
\* a request error, and process_file raises only what a row-task raised
\* when a body did not parse.
NoFailurePropagates ==
    /\ \A t \in Tasks :
          /\ futures[t].frame.exc \notin TransientErrors
          /\ futures[t].error = <<>> \/ futures[t].error[1] \notin TransientErrors
          /\ futures[t].frame.st = "raised" => ~IsFailure(futures[t].frame.hist[Len(futures[t].frame.hist)])
          /\ Exhausted(futures[t].frame) => futures[t].frame.st = "returned"
    /\ pc \in {"unwinding", "crashed"} => \E t \in Tasks : futures[t].error = <<"JSONDecodeError">>

\* The step that ends a search whose attempts all failed goes on with the
\* row, and the record it leads to is the one a response without items
\* gives: an empty URL list for that keyword and a similarity of 0.
ExhaustedIsEmpty ==
    \A t \in Tasks :
        /\ (futures[t].pc = "search1" /\ futures'[t].pc # "search1" /\ Exhausted(futures[t].frame))
              => /\ futures'[t].pc = "search2"
                 /\ futures'[t].results1 = [hasItems |-> FALSE, items |-> <<>>]
        /\ (futures[t].pc = "search2" /\ futures'[t].pc # "search2")
              => /\ Exhausted(futures[t].frame)
                    => /\ futures'[t].pc = "done"
                       /\ futures'[t].urls2 = <<>>
                       /\ futures'[t].result[1][SIM] = 0
                 /\ (futures[t].results1 = [hasItems |-> FALSE, items |-> <<>>]
                        /\ futures[t].frame.st = "returned")
                    => /\ futures'[t].pc = "done"
                       /\ futures'[t].urls1 = <<>>
                       /\ futures'[t].result[1][SIM] = 0

\* C4: whatever failures (error statuses, rate limits, network exceptions)
\* the two searches of a row meet, none reaches the row or the table as an
\* error: the row-task still yields a record and process_file does not
\* raise; a keyword whose search used up its attempts contributes an empty
\* URL list, as a search that returned no items does.
C4_FailuresStayInSearch == []NoFailurePropagates /\ [][ExhaustedIsEmpty]_vars

\* A row whose first search found items and whose second search has just
\* returned after 5 failures, a network failure and a 503 among them.
C4_Witness ==
    \E t \in Tasks :
        /\ futures[t].pc = "search2"
        /\ futures[t].results1.items = BodyA.items
        /\ futures[t].frame.st = "returned"
        /\ Exhausted(futures[t].frame)
        /\ \E i \in 1..5 : futures[t].frame.hist[i].kind = "neterr"
        /\ \E i \in 1..5 : futures[t].frame.hist[i].status = 503
        /\ pc = "pool"

\* C5: the output table never holds more than one record per row, its i-th
\* record carries the keyword pair of the i-th input row, and once
\* process_file has returned it has exactly as many records as the input
\* has rows, in whatever order the row-tasks finished.
C5_SubmissionOrder ==
    /\ Len(output_df) <= Len(df.rows)
    /\ \A i \in 1..Len(output_df) :
          /\ output_df[i][K1] = df.rows[i][K1]
          /\ output_df[i][K2] = df.rows[i][K2]
    /\ pc \in {"returned", "shown"} => Len(output_df) = Len(df.rows)

\* process_file has returned both records of a two-row table although the
\* second row's task finished before the first row's.
C5_Witness ==
    /\ pc = "returned"
    /\ overtaken
    /\ Len(df.rows) = 2
    /\ Len(output_df) = 2
    /\ output_df[1][K1] # output_df[2][K1]

\* The URLs the two lists share, counted without the set operators of the
\* scorer.
Shared(urls1, urls2) ==
    {u \in {urls1[i] : i \in 1..Len(urls1)} : \E j \in 1..Len(urls2) : urls2[j] = u}

Done == {t \in Tasks : futures[t].pc = "done"}

\* C6: the similarity of a record is 100 * |set(urls1) /\ set(urls2)| / 10
\* for the extracted lists urls1 and urls2: the divisor is 10 whatever the
\* sizes of the lists, an empty list gives 0, a repeated URL counts once.
C6_FixedDivisor ==
    \A t \in Done :
        LET sim == futures[t].result[1][SIM]
            n == Cardinality(Shared(futures[t].urls1, futures[t].urls2))
        IN  /\ sim * 10 = 100 * n
            /\ (futures[t].urls1 = <<>> \/ futures[t].urls2 = <<>>) => sim = 0

\* A record of 30 from a list of 6 URLs, 3 of them different, all 3 in the
\* other list.
C6_Witness ==
    \E t \in Done :
        /\ Len(futures[t].urls1) = 6
        /\ Cardinality(Range(futures[t].urls1)) = 3
        /\ Cardinality(Shared(futures[t].urls1, futures[t].urls2)) = 3
        /\ futures[t].result[1][SIM] = 30

\* C7: the similarity of every record is in [0, 100], whatever the two
\* responses held; each extracted list has at most 10 URLs.
C7_SimilarityInRange ==
    \A t \in Done :
        /\ futures[t].result[1][SIM] >= 0
        /\ futures[t].result[1][SIM] <= 100
        /\ Len(futures[t].urls1) <= 10
        /\ Len(futures[t].urls2) <= 10

\* A record of 100 from a first response of more than 10 items.
C7_Witness ==
    \E t \in Done :
        /\ Len(futures[t].results1.items) > 10
        /\ futures[t].result[1][SIM] = 100

\* The positions of the items that have a 'link' key, and of those whose
\* link is a non-empty string.
Carrying(items) == {i \in 1..Len(items) : items[i] # <<>>}

NonEmpty(items) == {i \in 1..Len(items) : items[i] # <<>> /\ items[i][1] # 0}

\* urls is the links at the positions S of items, in order, cut to 10.
IsFirstTenOf(urls, items, S) ==
    /\ Len(urls) = (IF Cardinality(S) < 10 THEN Cardinality(S) ELSE 10)
    /\ \A k \in 1..Len(urls) :
          \E i \in S : Cardinality({j \in S : j <= i}) = k /\ urls[k] = items[i][1]

\* C8 as stated: the extracted list is empty without an items field, and
\* otherwise the links of the items that carry a link, in order, cut to 10
\* after the filtering.
C8_Stated ==
    \A t \in Done :
        IF futures[t].results1.hasItems
        THEN IsFirstTenOf(futures[t].urls1, futures[t].results1.items,
                          Carrying(futures[t].results1.items))
        ELSE futures[t].urls1 = <<>>

\* C8, amended: the extracted list is empty without an items field, and
\* otherwise the links of the items whose link is a non-empty string (an
\* item whose link is "" is skipped like one without a link), in order, cut
\* to 10 after the filtering; it never has more than 10 URLs.
C8_ExtractNonEmptyLinks ==
    \A t \in Done :
        /\ Len(futures[t].urls1) <= 10
        /\ IF futures[t].results1.hasItems
           THEN IsFirstTenOf(futures[t].urls1, futures[t].results1.items,
                             NonEmpty(futures[t].results1.items))
           ELSE futures[t].urls1 = <<>>

\* 12 items, 3 of them with the link "": the 9 other links.
C8_Witness ==
    \E t \in Done :
        /\ futures[t].results1.items = CorpusBody("blank", 0, 12).items
        /\ Len(futures[t].urls1) = 9
        /\ futures[t].urls1[4] = 5

\* C9: a table without 'Keyword 1' or 'Keyword 2' makes process_file fail
\* with the configuration error before any row-task is submitted and before
\* any request: no search call, no request, no record.
C9_MissingColumnFailsFast ==
    ~({K1, K2} \subseteq df.columns)
        => /\ pc \in {"main", "idle", "error_shown", "process_file", "config_error"}
           /\ futures = <<>>
           /\ searchCalls = 0
           /\ requests = 0
           /\ output_df = <<>>
           /\ progress = <<>>

\* process_file has raised the configuration error on a one-row table
\* without 'Keyword 2'.
C9_Witness ==
    /\ pc = "config_error"
    /\ df.columns = {K1}
    /\ Len(df.rows) = 1
    /\ requests = 0

Missing(v) == v = <<>> \/ v = <<0>>

\* C10: with the API key or the search-engine id missing or empty,
\* process_file is never called, no row-task is submitted and no request is
\* sent; pressing start on an uploaded file shows the error.
C10_MissingCredentials ==
    (Missing(secrets.api_key) \/ Missing(secrets.cse_id))
        => /\ pc \in {"main", "idle", "error_shown"}
           /\ (pc # "main" /\ uploaded /\ clicked) => pc = "error_shown"
           /\ futures = <<>>
           /\ searchCalls = 0
           /\ requests = 0
           /\ output_df = <<>>

\* The error is shown for a present API key and an empty search-engine id.
C10_Witness ==
    /\ pc = "error_shown"
    /\ ~Missing(secrets.api_key)
    /\ secrets.cse_id = <<0>>
    /\ Len(df.rows) >= 1

\* ------------------------------------------------------------------- C11
\* The scheduling the claim assumes: a thread that can take a step takes
\* one eventually, and a request that was sent is answered (app.py:20,
\* 79-84).
SpecFair == Init /\ [][Next]_vars /\ WF_vars(Next)

\* The run is over: main shows nothing more, or process_file has returned
\* or raised.
Quiescent ==
    pc \in {"idle", "error_shown", "config_error", "crashed", "returned", "shown"}

\* Under that scheduling every run comes to its end, by a return or by an
\* exception.
Terminates == <>Quiescent

\* process_file has ended after submitting its row-tasks: it returned the
\* table or an exception left it.
RunEnded == pc \in {"returned", "shown", "crashed"}

\* C11: every submitted row-task ends with a record, by success or by
\* exhausted retries, never by an abort; and process_file ends only when
\* every row of the table has been submitted, has finished and has been
\* collected into the output table.
C11_RunsToCompletion ==
    /\ \A t \in Tasks : futures[t].pc # "raised"
    /\ RunEnded =>
          /\ Len(futures) = total_rows
          /\ \A t \in Tasks : futures[t].pc = "done"
          /\ cursor = total_rows + 1
          /\ Len(output_df) = total_rows

\* ------------------------------------------------------------------- C12
\* The two link lists a row-task holds once its second search has returned,
\* before any truncation: lists of any length, with repeated links.
\* For more than 10 shared links the binary64 score is no longer the exact
\* multiple of 10, but it is still a function of the number of shared links
\* alone, as the integer score is.
RawLinks(results) == IF results.hasItems THEN links_of(results.items) ELSE <<>>

\* C12: the score of two URL lists is the score of the same lists swapped:
\* the score in a finished row's record, computed from (urls1, urls2), is
\* the score of (urls2, urls1); and so it is for the untruncated link lists
\* of the two result objects, whatever their lengths and repetitions.
C12_Symmetric ==
    \A t \in Tasks :
        /\ futures[t].pc = "done" =>
              futures[t].result[1][SIM] =
                  calculate_serp_similarity(futures[t].urls2, futures[t].urls1)
        /\ (futures[t].pc = "search2" /\ futures[t].frame.st = "returned") =>
              LET A == RawLinks(futures[t].results1)
                  B == RawLinks(futures[t].frame.result)
              IN  calculate_serp_similarity(A, B) = calculate_serp_similarity(B, A)

\* A finished row whose two lists share links, differ in their numbers of
\* distinct links and of which one repeats a link.
C12_Witness ==
    \E t \in Tasks :
        /\ futures[t].pc = "done"
        /\ Shared(futures[t].urls1, futures[t].urls2) # {}
        /\ Cardinality(Range(futures[t].urls1)) # Cardinality(Range(futures[t].urls2))
        /\ Cardinality(Range(futures[t].urls1)) < Len(futures[t].urls1)
        /\ futures[t].result[1][SIM] > 0

\* ------------------------------------------------------------------- C13
\* C13: at every moment at most 10 row-tasks are executing, however many
\* rows were submitted; a task beyond the 10th has started only when
\* enough tasks have finished to leave it a worker.
C13_AtMostTenRunning ==
    /\ Cardinality(Running) <= 10
    /\ \A t \in Tasks :
          futures[t].pc # "pending" =>
              Cardinality({u \in Tasks : Finished(u)}) + 10 >= t

\* Ten tasks execute and the 11th row, submitted, waits for a worker.
C13_Witness ==
    /\ Len(futures) >= 11
    /\ Cardinality(Running) = 10
    /\ futures[11].pc = "pending"
    /\ \A t \in 1..10 : t \in Running

\* ------------------------------------------------------------------- C14
\* The diagnostic lines of a call that carry the attempt number i.
LinesOf(f, i) == {j \in 1..Len(f.printed) : f.printed[j] = i}

\* C14 as stated: every failed attempt of a call, a 429 among them, has
\* exactly one diagnostic line, which carries its number.
C14_Stated ==
    \A t \in Tasks :
        LET f == futures[t].frame
        IN  \A i \in 1..Len(f.hist) :
                IsFailure(f.hist[i]) => Cardinality(LinesOf(f, i)) = 1

\* C14: every attempt of a call that fails by a network failure or by a 4xx
\* or 5xx status other than 429 has exactly one diagnostic line, which
\* carries its number, a number of 1..5; an attempt answered by 429, and an
\* attempt that did not fail, has none; the lines come in the order of the
\* attempts.
C14_DiagnosticLines ==
    \A t \in Tasks :
        LET f == futures[t].frame
        IN  /\ \A i \in 1..Len(f.hist) :
                  Cardinality(LinesOf(f, i)) =
                      IF IsFailure(f.hist[i]) /\ ~IsRateLimit(f.hist[i]) THEN 1 ELSE 0
            /\ \A j \in 1..Len(f.printed) :
                  f.printed[j] \in 1..Len(f.hist) /\ f.printed[j] \in 1..5
            /\ \A j \in 1..(Len(f.printed) - 1) : f.printed[j] < f.printed[j + 1]

\* A call whose 1st and 4th attempts were answered by 429, whose 2nd met a
\* network failure, whose 3rd and 5th an error status: lines 2, 3 and 5.
C14_Witness ==
    \E t \in Tasks :
        LET f == futures[t].frame
        IN  /\ Len(f.hist) = 5
            /\ IsRateLimit(f.hist[1]) /\ IsRateLimit(f.hist[4])
            /\ f.hist[2].kind = "neterr"
            /\ f.hist[3].status = 404
            /\ f.hist[5].status = 503
            /\ f.printed = <<2, 3, 5>>
            /\ f.st = "returned"

\* ------------------------------------------------------------------- C15
\* How many of the first i attempts of a call failed.
FailedUpTo(f, i) == Cardinality({j \in 1..i : IsFailure(f.hist[j])})

\* C15: the sleep that follows a failed attempt is of 10 time-units when
\* the attempt was answered by 429 and of 5 when it failed otherwise,
\* whatever the attempt's number and whatever came before; and a call
\* sleeps nowhere else: not before its first attempt, not after an attempt
\* that did not fail.
C15_BackoffByKind ==
    \A t \in Tasks :
        LET f == futures[t].frame
        IN  /\ \A i \in 1..Len(f.hist) :
                  IsFailure(f.hist[i]) =>
                      /\ FailedUpTo(f, i) <= Len(f.sleeps)
                      /\ f.sleeps[FailedUpTo(f, i)] =
                             (IF IsRateLimit(f.hist[i]) THEN 10 ELSE 5)
            /\ Len(f.sleeps) <= FailedUpTo(f, Len(f.hist))
            /\ f.hist = <<>> => f.sleeps = <<>>
            /\ (f.hist # <<>> /\ ~IsFailure(f.hist[Len(f.hist)])) =>
                   /\ f.st # "loop"
                   /\ Len(f.sleeps) = FailedUpTo(f, Len(f.hist) - 1)

\* A call that slept 5, 10 and 5 after an error status, a 429 and a network
\* failure, and then returned a success without sleeping again.
C15_Witness ==
    \E t \in Tasks :
        LET f == futures[t].frame
        IN  /\ Len(f.hist) = 4
            /\ f.hist[1].status = 503
            /\ IsRateLimit(f.hist[2])
            /\ f.hist[3].kind = "neterr"
            /\ IsSuccess(f.hist[4])
            /\ f.sleeps = <<5, 10, 5>>
            /\ f.st = "returned"

\* ------------------------------------------------------------------- C16
\* The records collected so far are the results of the first tasks, one
\* each, in their order: none lost, none twice, none altered.
RecordsAreResults ==
    /\ Len(output_df) = cursor - 1
    /\ Len(output_df) <= Len(futures)
    /\ \A i \in 1..Len(output_df) : output_df[i] = futures[i].result[1]

\* A step that changes the output table is a step of the orchestrating
\* thread that retrieves one task result and appends that one record; a
\* step in which a row-task moves leaves the output table as it was.
OnlyCollectorAppends ==
    /\ output_df' # output_df =>
          /\ futures' = futures
          /\ cursor' = cursor + 1
          /\ futures[cursor].pc = "done"
          /\ output_df' = Append(output_df, futures[cursor].result[1])
    /\ (\E t \in Tasks : t <= Len(futures') /\ futures'[t] # futures[t]) =>
          output_df' = output_df

\* C16: the output table is appended to only by the orchestrating thread,
\* one record per retrieved task result; no step of a worker changes it;
\* under every interleaving it holds the results of the collected tasks
\* exactly.
C16_OnlyCollectorAppends == []RecordsAreResults /\ [][OnlyCollectorAppends]_vars

\* The first record has been appended while the worker of the second row
\* is still in a search, having sent a request.
C16_Witness ==
    /\ Len(output_df) = 1
    /\ Len(futures) = 2
    /\ futures[2].pc \in {"search1", "search2"}
    /\ futures[2].frame.gets >= 1
    /\ output_df[1] = futures[1].result[1]

\* ------------------------------------------------------------------- C17
\* While a row-task is in its first search every request it has sent is
\* one of that search, and it has entered search once.
FirstSearchAlone ==
    \A t \in Tasks :
        (Len(futures) = 1 /\ futures[t].pc = "search1") =>
            /\ requests = futures[t].frame.gets
            /\ searchCalls = 1

\* A row-task leaves its first search for the second only when the first
\* has returned, all its attempts and sleeps done, and it enters the second
\* with no request sent for it yet; a request is sent by the one search the
\* task is in, which it does not leave in that step; and the result of the
\* first search stays as it was returned while the second runs.
SearchesInSequence ==
    \A t \in Tasks :
        t <= Len(futures') =>
            /\ (futures[t].pc = "search1" /\ futures'[t].pc = "search2") =>
                  /\ futures[t].frame.st = "returned"
                  /\ Len(futures[t].frame.sleeps)
                         = FailedUpTo(futures[t].frame, Len(futures[t].frame.hist))
                  /\ futures'[t].results1 = futures[t].frame.result
                  /\ futures'[t].frame.gets = 0
                  /\ searchCalls' = searchCalls + 1
                  /\ requests' = requests
            /\ futures[t].pc = "search1" => futures'[t].pc \in {"search1", "search2", "raised"}
            /\ futures'[t].frame.gets > futures[t].frame.gets =>
                  /\ futures'[t].pc = futures[t].pc
                  /\ futures[t].frame.st = "loop"
                  /\ futures'[t].frame.gets = futures[t].frame.gets + 1
            /\ (futures[t].pc = "search2" /\ futures'[t].pc = "search2") =>
                  futures'[t].results1 = futures[t].results1

\* C17: within one row-task the first request for keyword 2 is sent only
\* after the search for keyword 1 has returned, its retries and backoff
\* sleeps included; the two searches of a row never overlap.
C17_SearchesInSequence == []FirstSearchAlone /\ [][SearchesInSequence]_vars

\* The second search has sent its first request after a first search that
\* took three requests to return its result.
C17_Witness ==
    \E t \in Tasks :
        /\ Len(futures) = 1
        /\ futures[t].pc = "search2"
        /\ futures[t].frame.gets = 1
        /\ requests = 4
        /\ futures[t].results1.items = BodyA.items

\* ------------------------------------------------------------------- C18
\* C18: the k-th progress emission reports k rows completed, out of the
\* number of rows of the table, with a partial table of k records; the
\* reported counts so increase by one from 1; and when process_file has
\* ended, the last emission reports all the rows of the table.
C18_ProgressCounts ==
    /\ \A k \in 1..Len(progress) :
          /\ progress[k].completed = k
          /\ progress[k].shown = k
          /\ progress[k].total = total_rows
    /\ Len(progress) = Len(output_df)
    /\ (RunEnded /\ progress # <<>>) =>
          progress[Len(progress)].completed = total_rows

\* ------------------------------------------------------------------- C19
\* C19: no query is answered from a cache: when process_file has ended on a
\* table of n rows, search has been called exactly 2n times, twice for
\* every row, and at least 2n requests have been sent, whatever keywords
\* the rows repeat; and at no time has search been called more than twice
\* per submitted row.
C19_TwoSearchesPerRow ==
    /\ searchCalls <= 2 * Len(futures)
    /\ RunEnded =>
          /\ searchCalls = 2 * total_rows
          /\ requests >= 2 * total_rows

\* ------------------------------------------------------------------- C20
RECURSIVE Total(_)
Total(s) == IF s = <<>> THEN 0 ELSE Head(s) + Total(Tail(s))

\* C20: a call of search has slept once for each of its failed attempts,
\* the 5th included, after which it returns the empty result with no
\* further request; so it sleeps at most 5 times and at most 50 time-units
\* in all.
C20_SleepPerFailure ==
    \A t \in Tasks :
        LET f == futures[t].frame
        IN  /\ Len(f.sleeps) = FailedUpTo(f, Len(f.hist))
            /\ Exhausted(f) =>
                  /\ Len(f.sleeps) = 5
                  /\ f.st = "returned"
                  /\ f.result = EmptyDict
            /\ Len(f.sleeps) <= 5
            /\ Total(f.sleeps) <= 50

\* A call that has returned the empty result after four 429 responses and
\* an error status at the 5th attempt, having slept after that one too.
C20_Witness ==
    \E t \in Tasks :
        LET f == futures[t].frame
        IN  /\ Exhausted(f)
            /\ \A i \in 1..4 : IsRateLimit(f.hist[i])
            /\ f.hist[5].status = 503
            /\ f.sleeps = <<10, 10, 10, 10, 5>>
            /\ f.st = "returned"
            /\ f.result = EmptyDict

====
